---- MODULE Spec2Model ----
(***************************************************************************)
(* Asynchronous chat pipeline of aws-rag: the API lambda                   *)
(* (src/api_lambda/api.py) stores a user message in the DynamoDB table and *)
(* enqueues a job on SQS; the worker lambda (src/worker_lambda/worker.py)  *)
(* consumes the job, loads the recent history, calls the model and stores  *)
(* the assistant message.                                                  *)
(***************************************************************************)
EXTENDS Integers, Sequences, FiniteSets, TLC

\* ------------------------------------------------------------------ bounds
MaxClock == 2        \* the wall clock runs over the ticks 0..MaxClock
TicksPerSec == 2     \* clock ticks per second (datetime: 10^6 microseconds)
MaxIds == 3          \* number of uuid4 values drawn in one run
MaxDeliveries == 2   \* number of batches the queue hands to the workers
MaxBatch == 2        \* records in one SQS batch

\* ------------------------------------------------- processes and inputs
Reqs == {"r1", "r2"}            \* concurrent invocations of the API lambda
Workers == {"w1", "w2"}         \* concurrent invocations of the worker lambda
ReqIndex(r) == IF r = "r1" THEN 1 ELSE 2
WorkerIndex(w) == IF w = "w1" THEN 1 ELSE 2

\* Identifiers and contents are strings, modelled as sequences of tokens.

\* A stored content is a str, a dict or a list (Union types of the models).
Str(text) == [kind |-> "str", text |-> text]

\* JSON bodies of POST /chat: every field present, or one field missing.
FullBodies ==
    { [user_id |-> <<"u1">>, session_id |-> <<"s1">>, content |-> <<"Hello">>],
      [user_id |-> << >>, session_id |-> <<"s1">>, content |-> <<"Hello">>] }
PartialBodies ==
    { [user_id |-> <<"u1">>, session_id |-> <<"s1">>] }
Bodies == FullBodies \cup PartialBodies

\* SQS payloads that did not come from send_message: a field is missing.
MalformedPayloads ==
    { [user_id |-> <<"u1">>, session_id |-> <<"s1">>] }

\* What the generation backend answers: text, or multi-part content.
LLMContents ==
    { Str(<<"reply">>), [kind |-> "list", text |-> <<"reply">>] }

BEDROCK_MODEL_ID == "amazon.nova-lite-v1:0"
HistoryLimit == 20

\* ------------------------------------------------------------ pure helpers
\* datetime.now(timezone.utc).isoformat().replace("+00:00", "Z"): the string
\* is "<date>T<time>" followed by ".ffffff" only when the microsecond part is
\* not zero, then "Z".  A string is the sequence of its parts, each part a
\* number: the seconds and the fraction are fixed-width digit groups (they
\* compare as their values), "." and "Z" are their character codes.
DotChar == 46
ZChar == 90
IsoFormat(t) ==
    IF t % TicksPerSec = 0
    THEN << t \div TicksPerSec, ZChar >>
    ELSE << t \div TicksPerSec, DotChar, t % TicksPerSec, ZChar >>

\* Order of DynamoDB string sort keys: byte-wise, a proper prefix first.
RECURSIVE StrLess(_, _)
StrLess(a, b) ==
    IF b = << >> THEN FALSE
    ELSE IF a = << >> THEN TRUE
    ELSE IF Head(a) # Head(b) THEN Head(a) < Head(b)
    ELSE StrLess(Tail(a), Tail(b))

\* f"USER#{user_id}#SESSION#{session_id}"; "#" is a token of its own.
PartitionKey(user_id, session_id) ==
    <<"USER", "#">> \o user_id \o <<"#", "SESSION", "#">> \o session_id

\* len(content.split()): the whitespace-separated tokens of the content.
TokenCount(content) ==
    Cardinality({ i \in 1..Len(content) : content[i] # " " })

\* MessageMetadata(tokens=token_count).model_dump()
MessageMetadata(tokens) == [tokens |-> tokens, source |-> "api"]

\* AssistantMetadata(...).model_dump()
AssistantMetadata(latency, inTok, outTok, umid) ==
    [latency_ms |-> latency, input_tokens |-> inTok,
     output_tokens |-> outTok, user_message_id |-> umid]

\* SendMessageRequest.model_validate: the three str fields are required.
SendMessageRequestValid(body) ==
    {"user_id", "session_id", "content"} \subseteq DOMAIN body

\* WorkerMessageBody.parse_raw: the three str fields are required.
WorkerMessageBodyValid(payload) ==
    {"user_id", "session_id", "message_id"} \subseteq DOMAIN payload

\* int((end_time - start_time).total_seconds() * 1000), truncated to zero.
LatencyMs(startT, endT) ==
    IF endT >= startT
    THEN ((endT - startT) * 1000) \div TicksPerSec
    ELSE 0 - (((startT - endT) * 1000) \div TicksPerSec)

\* ------------------------------------------------------------------- state
VARIABLES
    store,      \* the DynamoDB table: a set of items, one per (PK, SK)
    queue,      \* the SQS queue: payloads not yet deleted
    now,        \* the wall clock: the latest reading of datetime.now
    nextId,     \* the next uuid4 value
    rpc,        \* per API invocation: "idle", "enqueue", "done"
    rbody,      \* per API invocation: app.current_event.json_body
    ritem,      \* per API invocation: item_data of send_message
    resp,       \* per API invocation: the response of post_chat_message
    wpc,        \* per worker invocation: position in lambda_handler
    batch,      \* per worker invocation: event["Records"]
    idx,        \* per worker invocation: index of the record in process
    hist,       \* per worker invocation: conversation_history
    startT,     \* per worker invocation: start_time
    llm,        \* per worker invocation: llm_response and latency_ms
    steps,      \* per worker invocation: steps done for the current record
    wres,       \* per worker invocation: how lambda_handler ended last
    written,    \* every item a put_item call has stored, with its time
    delivered,  \* every payload the queue has handed to a worker
    nDeliv,     \* number of batches delivered so far
    calls,      \* per message_id: deliveries of its job, invoke_llm calls
    gout        \* what the last call of a read route or helper returned

vars == << store, queue, now, nextId, rpc, rbody, ritem, resp, wpc, batch, idx,
           hist, startT, llm, steps, wres, written, delivered, nDeliv,
           calls, gout >>

apiVars == << rpc, rbody, ritem, resp >>
workerVars == << wpc, batch, idx, hist, startT, llm, steps, wres,
                 delivered, nDeliv, calls >>
readVars == << gout >>

\* datetime.now(timezone.utc): what a reading of the clock can return.  The
\* clock never runs backwards; two readings can return the same tick.
ClockReadings == now..MaxClock

NoBody == [none |-> TRUE]
NoItem == [PK |-> << >>]
NoResp == [statusCode |-> 0]
NoOut == [route |-> "none"]
\* The counters of calls stop counting above MaxDeliveries.
Counted(n) == IF n <= MaxDeliveries THEN n + 1 ELSE n
NoCalls == [id \in 1..MaxIds |-> [handed |-> 0, invoked |-> 0]]
NoLLM == [content |-> Str(<< >>), input_tokens |-> 0, output_tokens |-> 0,
          latency_ms |-> 0]

\* --------------------------------------------------------------- the store
\* Table.put_item(Item=item): the table's primary key is (PK, SK); an item
\* with the same key is replaced.
PutItem(table, item) ==
    { m \in table : ~(m.PK = item.PK /\ m.SK = item.SK) } \cup {item}

Partition(table, pk) == { m \in table : m.PK = pk }

\* The items of a set in descending sort-key order (ScanIndexForward=False).
RECURSIVE Descending(_)
Descending(S) ==
    IF S = {} THEN << >>
    ELSE LET top == CHOOSE m \in S :
                        \A o \in S : ~StrLess(m.SK, o.SK)
         IN  <<top>> \o Descending(S \ {top})

Reverse(s) == [ i \in 1..Len(s) |-> s[Len(s) + 1 - i] ]

FirstN(s, n) == IF Len(s) <= n THEN s ELSE SubSeq(s, 1, n)

\* Variant of QueryRecent: the page is returned as the table delivers it,
\* newest first.
QueryRecentNewestFirst(table, user_id, session_id, limit) ==
    FirstN(Descending(Partition(table,
                PartitionKey(user_id, session_id))), limit)

\* Table.query(PK = pk, ScanIndexForward=False, Limit=limit), then reverse().
QueryRecent(table, user_id, session_id, limit) ==
    Reverse(FirstN(Descending(Partition(table,
                PartitionKey(user_id, session_id))), limit))

\* ----------------------------------------------------------- the API lambda
\* item_data of ChatService.send_message
UserItem(body, id, t) ==
    [PK |-> PartitionKey(body.user_id, body.session_id),
     SK |-> IsoFormat(t),
     message_id |-> id,
     role |-> "user",
     content |-> Str(body.content),
     created_at |-> IsoFormat(t),
     session_status |-> "active",
     model |-> "None",
     metadata |-> MessageMetadata(TokenCount(body.content))]

\* sqs_message of ChatService.send_message, as json.dumps writes it
SqsMessage(body, id) ==
    [user_id |-> body.user_id, session_id |-> body.session_id,
     message_id |-> id]

\* The except branch of a route: {"statusCode": 500, "body": {"error": ...}}
ErrorResponse(isValueError) ==
    [statusCode |-> 500,
     error |-> IF isValueError THEN "str(e)" ELSE "Internal Server Error"]

\* Variant of AcceptedResponse: the response carries an identifier of its
\* own instead of the stored message's.
AcceptedResponseOwnId(item) ==
    [statusCode |-> 202, message_id |-> item.message_id + 1,
     status |-> "processing", timestamp |-> item.created_at]

\* The success branch of post_chat_message
AcceptedResponse(item) ==
    [statusCode |-> 202, message_id |-> item.message_id,
     status |-> "processing", timestamp |-> item.created_at]

\* API Gateway starts an invocation of the API lambda.  The invocations are
\* interchangeable: a request takes the first one that has not run yet.
CanStart(r) ==
    /\ rpc[r] = "idle"
    /\ \A o \in Reqs : rpc[o] = "idle" => ReqIndex(r) <= ReqIndex(o)

\* post_chat_message: SendMessageRequest.model_validate raises.
PostChatInvalid(r, body) ==
    /\ CanStart(r)
    /\ ~SendMessageRequestValid(body)
    /\ rpc' = [rpc EXCEPT ![r] = "done"]
    /\ rbody' = [rbody EXCEPT ![r] = body]
    /\ ritem' = [ritem EXCEPT ![r] = NoItem]
    /\ resp' = [resp EXCEPT ![r] = ErrorResponse(TRUE)]
    /\ UNCHANGED << store, queue, now, nextId, written >>
    /\ UNCHANGED workerVars
    /\ UNCHANGED readVars

\* send_message up to and including a successful put_item.
SendMessagePut(r, body, t) ==
    /\ CanStart(r)
    /\ SendMessageRequestValid(body)
    /\ nextId <= MaxIds
    /\ t \in ClockReadings
    /\ now' = t
    /\ LET item == UserItem(body, nextId, t)
       IN  /\ store' = PutItem(store, item)
           /\ written' = written \cup {item}
           /\ ritem' = [ritem EXCEPT ![r] = item]
    /\ nextId' = nextId + 1
    /\ rpc' = [rpc EXCEPT ![r] = "enqueue"]
    /\ rbody' = [rbody EXCEPT ![r] = body]
    /\ resp' = [resp EXCEPT ![r] = NoResp]
    /\ UNCHANGED queue
    /\ UNCHANGED workerVars
    /\ UNCHANGED readVars

\* Variant of SendMessagePutFail: the failed write is swallowed and
\* send_message goes on to enqueue the job.
SendMessagePutFailEnqueues(r, body) ==
    /\ CanStart(r)
    /\ SendMessageRequestValid(body)
    /\ nextId <= MaxIds
    /\ ritem' = [ritem EXCEPT ![r] = UserItem(body, nextId, now)]
    /\ nextId' = nextId + 1
    /\ rpc' = [rpc EXCEPT ![r] = "enqueue"]
    /\ rbody' = [rbody EXCEPT ![r] = body]
    /\ resp' = [resp EXCEPT ![r] = NoResp]
    /\ UNCHANGED << store, queue, now, written >>
    /\ UNCHANGED workerVars
    /\ UNCHANGED readVars

\* send_message when put_item raises: the route answers 500.
SendMessagePutFail(r, body) ==
    /\ CanStart(r)
    /\ SendMessageRequestValid(body)
    /\ rpc' = [rpc EXCEPT ![r] = "done"]
    /\ rbody' = [rbody EXCEPT ![r] = body]
    /\ ritem' = [ritem EXCEPT ![r] = NoItem]
    /\ resp' = [resp EXCEPT ![r] = ErrorResponse(FALSE)]
    /\ UNCHANGED << store, queue, now, nextId, written >>
    /\ UNCHANGED workerVars
    /\ UNCHANGED readVars

\* send_message from sqs_repository.send_message to the 202 response.
SendMessageEnqueue(r) ==
    /\ rpc[r] = "enqueue"
    /\ queue' = queue \cup {SqsMessage(rbody[r], ritem[r].message_id)}
    /\ rpc' = [rpc EXCEPT ![r] = "done"]
    /\ resp' = [resp EXCEPT ![r] = AcceptedResponse(ritem[r])]
    /\ UNCHANGED << store, now, nextId, rbody, ritem, written >>
    /\ UNCHANGED workerVars
    /\ UNCHANGED readVars

\* Variant of SendMessageEnqueueFail: a compensating delete of the message.
SendMessageEnqueueFailRollback(r) ==
    /\ rpc[r] = "enqueue"
    /\ store' = store \ {ritem[r]}
    /\ rpc' = [rpc EXCEPT ![r] = "done"]
    /\ resp' = [resp EXCEPT ![r] = ErrorResponse(FALSE)]
    /\ UNCHANGED << queue, now, nextId, rbody, ritem, written >>
    /\ UNCHANGED workerVars
    /\ UNCHANGED readVars

\* send_message when sqs_repository.send_message raises: 500, no rollback.
SendMessageEnqueueFail(r) ==
    /\ rpc[r] = "enqueue"
    /\ rpc' = [rpc EXCEPT ![r] = "done"]
    /\ resp' = [resp EXCEPT ![r] = ErrorResponse(FALSE)]
    /\ UNCHANGED << store, queue, now, nextId, rbody, ritem, written >>
    /\ UNCHANGED workerVars
    /\ UNCHANGED readVars

\* -------------------------------------------------------- the worker lambda
Range(f) == { f[i] : i \in DOMAIN f }

\* The batches SQS can hand to one invocation: distinct payloads, in order.
Batches(payloads) ==
    { b \in UNION { [1..n -> payloads] : n \in 1..MaxBatch } :
        \A i, j \in DOMAIN b : i # j => b[i] # b[j] }

\* Message.model_validate(item): content is Union[str, Dict[...]].
MessageValid(item) == item.content.kind \in {"str", "dict"}

\* json.dumps(content) of a dict content
JsonDumps(text) == <<"{">> \o text \o <<"}">>

\* Variant of BuildBedrockMessages: a message whose content is not a str
\* is left out.
BuildBedrockMessagesTextOnly(history) ==
    LET texts == SelectSeq(history, LAMBDA m : m.content.kind = "str")
    IN  [ i \in 1..Len(texts) |->
            [role |-> texts[i].role, content |-> texts[i].content.text] ]

\* LLMProvider.build_bedrock_messages
BuildBedrockMessages(history) ==
    [ i \in 1..Len(history) |->
        [role |-> history[i].role,
         content |-> IF history[i].content.kind = "str"
                     THEN history[i].content.text
                     ELSE JsonDumps(history[i].content.text)] ]

\* item of DynamoDBRepository.save_assistant_message
AssistantItem(payload, id, t, response) ==
    [PK |-> PartitionKey(payload.user_id, payload.session_id),
     SK |-> IsoFormat(t),
     message_id |-> id,
     role |-> "assistant",
     content |-> response.content,
     created_at |-> IsoFormat(t),
     session_status |-> "active",
     model |-> BEDROCK_MODEL_ID,
     metadata |-> AssistantMetadata(response.latency_ms,
                     response.input_tokens, response.output_tokens,
                     payload.message_id)]

\* Variant of PcAfter: the reply is stored without calling the backend.
PcAfterSkipsInvoke(pc) ==
    CASE pc = "received" -> "save"
      [] pc = "invoke" -> "invoking"
      [] pc = "invoking" -> "save"
      [] pc = "save" -> "saved"

\* The statements of process_record in program order.
PcAfter(pc) ==
    CASE pc = "received" -> "invoke"
      [] pc = "invoke" -> "invoking"
      [] pc = "invoking" -> "save"
      [] pc = "save" -> "saved"

Record(w) == batch[w][idx[w]]

\* Variant of Raise: the except branch swallows the error and the handler
\* returns normally, so SQS deletes the batch's messages.
RaiseSwallowed(w) ==
    /\ wpc' = [wpc EXCEPT ![w] = "idle"]
    /\ wres' = [wres EXCEPT ![w] = "success"]
    /\ queue' = queue \ Range(batch[w])
    /\ hist' = [hist EXCEPT ![w] = << >>]
    /\ llm' = [llm EXCEPT ![w] = NoLLM]
    /\ startT' = [startT EXCEPT ![w] = 0]
    /\ batch' = [batch EXCEPT ![w] = << >>]
    /\ idx' = [idx EXCEPT ![w] = 0]
    /\ steps' = [steps EXCEPT ![w] = << >>]
    /\ UNCHANGED << store, now, nextId, written, delivered, nDeliv,
                    calls >>
    /\ UNCHANGED apiVars
    /\ UNCHANGED readVars

\* Variant of Raise: the handler reports only the failing record and the
\* ones after it as failed, so SQS deletes the records already answered.
RaisePartialAck(w) ==
    /\ wpc' = [wpc EXCEPT ![w] = "idle"]
    /\ wres' = [wres EXCEPT ![w] = "raised"]
    /\ queue' = queue \ { batch[w][i] : i \in 1..(idx[w] - 1) }
    /\ hist' = [hist EXCEPT ![w] = << >>]
    /\ llm' = [llm EXCEPT ![w] = NoLLM]
    /\ startT' = [startT EXCEPT ![w] = 0]
    /\ batch' = [batch EXCEPT ![w] = << >>]
    /\ idx' = [idx EXCEPT ![w] = 0]
    /\ steps' = [steps EXCEPT ![w] = << >>]
    /\ UNCHANGED << store, now, nextId, written, delivered, nDeliv,
                    calls >>
    /\ UNCHANGED apiVars
    /\ UNCHANGED readVars

\* The except branch of lambda_handler: log and re-raise.  The invocation
\* ends in error and SQS deletes none of the batch's messages.
Raise(w) ==
    /\ wpc' = [wpc EXCEPT ![w] = "idle"]
    /\ wres' = [wres EXCEPT ![w] = "raised"]
    /\ hist' = [hist EXCEPT ![w] = << >>]
    /\ llm' = [llm EXCEPT ![w] = NoLLM]
    /\ startT' = [startT EXCEPT ![w] = 0]
    /\ batch' = [batch EXCEPT ![w] = << >>]
    /\ idx' = [idx EXCEPT ![w] = 0]
    /\ steps' = [steps EXCEPT ![w] = << >>]
    /\ UNCHANGED << store, queue, now, nextId, written, delivered, nDeliv,
                    calls >>
    /\ UNCHANGED apiVars
    /\ UNCHANGED readVars

\* SQS invokes lambda_handler with a batch of visible messages.  The
\* invocations are interchangeable: a batch goes to the first idle one.
Deliver(w) ==
    /\ wpc[w] = "idle"
    /\ \A o \in Workers : wpc[o] = "idle" => WorkerIndex(w) <= WorkerIndex(o)
    /\ nDeliv < MaxDeliveries
    /\ \E b \in Batches(queue \cup MalformedPayloads) :
          /\ batch' = [batch EXCEPT ![w] = b]
          /\ delivered' = delivered \cup (Range(b) \cap queue)
          /\ calls' = [id \in DOMAIN calls |->
                          IF \E job \in Range(b) \cap queue :
                                 job.message_id = id
                          THEN [calls[id] EXCEPT !.handed = Counted(@)]
                          ELSE calls[id]]
    /\ wpc' = [wpc EXCEPT ![w] = "received"]
    /\ idx' = [idx EXCEPT ![w] = 1]
    /\ steps' = [steps EXCEPT ![w] = << >>]
    /\ wres' = [wres EXCEPT ![w] = "none"]
    /\ nDeliv' = nDeliv + 1
    /\ UNCHANGED << store, queue, now, nextId, written, hist, startT, llm >>
    /\ UNCHANGED apiVars
    /\ UNCHANGED readVars

\* SQS hands a job that is still in the queue to an invocation again, on
\* its own, any number of times (visibility timeout after a failed
\* invocation); nDeliv counts up to MaxDeliveries only.
Redeliver(w, job) ==
    /\ wpc[w] = "idle"
    /\ job \in queue
    /\ batch' = [batch EXCEPT ![w] = << job >>]
    /\ delivered' = delivered \cup {job}
    /\ calls' = [calls EXCEPT ![job.message_id].handed = Counted(@)]
    /\ nDeliv' = IF nDeliv < MaxDeliveries THEN nDeliv + 1 ELSE nDeliv
    /\ wpc' = [wpc EXCEPT ![w] = "received"]
    /\ idx' = [idx EXCEPT ![w] = 1]
    /\ steps' = [steps EXCEPT ![w] = << >>]
    /\ wres' = [wres EXCEPT ![w] = "none"]
    /\ UNCHANGED << store, queue, now, nextId, written, hist, startT, llm >>
    /\ UNCHANGED apiVars
    /\ UNCHANGED readVars

\* Variant of ParseFail: the record that does not parse is logged and
\* skipped, and the loop goes on as if it had been processed.
ParseFailDropped(w) ==
    /\ wpc[w] = "received"
    /\ ~WorkerMessageBodyValid(Record(w))
    /\ wpc' = [wpc EXCEPT ![w] = "saved"]
    /\ UNCHANGED << store, queue, now, nextId, written, batch, idx, hist,
                    startT, llm, steps, wres, delivered, nDeliv, calls >>
    /\ UNCHANGED apiVars
    /\ UNCHANGED readVars

\* WorkerMessageBody.parse_raw raises on the current record.
ParseFail(w) ==
    /\ wpc[w] = "received"
    /\ ~WorkerMessageBodyValid(Record(w))
    /\ Raise(w)

\* parse_raw, get_conversation_history and build_bedrock_messages succeed.
LoadHistory(w) ==
    /\ wpc[w] = "received"
    /\ WorkerMessageBodyValid(Record(w))
    /\ LET h == QueryRecent(store, Record(w).user_id, Record(w).session_id,
                            HistoryLimit)
       IN  /\ \A i \in 1..Len(h) : MessageValid(h[i])
           /\ hist' = [hist EXCEPT ![w] = h]
    /\ steps' = [steps EXCEPT ![w] =
                    <<"received", "history-loaded", "context-built">>]
    /\ wpc' = [wpc EXCEPT ![w] = PcAfter("received")]
    /\ UNCHANGED << store, queue, now, nextId, written, batch, idx, startT,
                    llm, wres, delivered, nDeliv, calls >>
    /\ UNCHANGED apiVars
    /\ UNCHANGED readVars

\* get_conversation_history raises: the query fails, or a stored item does
\* not validate as a Message.
LoadHistoryFail(w) ==
    /\ wpc[w] = "received"
    /\ WorkerMessageBodyValid(Record(w))
    /\ Raise(w)

\* start_time is read and the generation backend is called.
InvokeCall(w, t) ==
    /\ wpc[w] = "invoke"
    /\ t \in ClockReadings
    /\ now' = t
    /\ startT' = [startT EXCEPT ![w] = t]
    /\ hist' = [hist EXCEPT ![w] = << >>]
    /\ wpc' = [wpc EXCEPT ![w] = PcAfter("invoke")]
    /\ calls' = [calls EXCEPT
                    ![Record(w).message_id].invoked = Counted(@)]
    /\ UNCHANGED << store, queue, nextId, written, batch, idx, llm, steps,
                    wres, delivered, nDeliv >>
    /\ UNCHANGED apiVars
    /\ UNCHANGED readVars

\* invoke_llm returns; end_time is read and latency_ms computed.
InvokeReturn(w, c, t) ==
    /\ wpc[w] = "invoking"
    /\ t \in ClockReadings
    /\ now' = t
    /\ llm' = [llm EXCEPT ![w] =
                 [content |-> c, input_tokens |-> 0, output_tokens |-> 0,
                  latency_ms |-> LatencyMs(startT[w], t)]]
    /\ steps' = [steps EXCEPT ![w] = Append(@, "generation-invoked")]
    /\ startT' = [startT EXCEPT ![w] = 0]
    /\ wpc' = [wpc EXCEPT ![w] = PcAfter("invoking")]
    /\ UNCHANGED << store, queue, nextId, written, batch, idx, hist, wres,
                    delivered, nDeliv, calls >>
    /\ UNCHANGED apiVars
    /\ UNCHANGED readVars

\* Variant of InvokeFail: the strategy catches the backend's error and
\* calls the backend again.
InvokeFailRetries(w) ==
    /\ wpc[w] = "invoking"
    /\ wpc' = [wpc EXCEPT ![w] = "invoke"]
    /\ UNCHANGED << store, queue, now, nextId, written, batch, idx, hist,
                    startT, llm, steps, wres, delivered, nDeliv, calls >>
    /\ UNCHANGED apiVars
    /\ UNCHANGED readVars

\* invoke_llm raises (logged and re-raised by the strategy).
InvokeFail(w) ==
    /\ wpc[w] = "invoking"
    /\ Raise(w)

\* The assistant messages in a table that answer a user message.
Replies(table, umid) ==
    { m \in table : m.role = "assistant"
                     /\ m.metadata.user_message_id = umid }

\* Variant of SaveAssistantMessage: a deduplication guard skips the write
\* when the user message already has a reply.
SaveAssistantMessageDedup(w, t) ==
    /\ wpc[w] = "save"
    /\ nextId <= MaxIds
    /\ t \in ClockReadings
    /\ now' = t
    /\ LET item == AssistantItem(Record(w), nextId, t, llm[w])
       IN  IF Replies(store, Record(w).message_id) # {}
           THEN UNCHANGED << store, written >>
           ELSE /\ store' = PutItem(store, item)
                /\ written' = written \cup {item}
    /\ nextId' = nextId + 1
    /\ steps' = [steps EXCEPT ![w] = Append(@, "reply-persisted")]
    /\ llm' = [llm EXCEPT ![w] = NoLLM]
    /\ wpc' = [wpc EXCEPT ![w] = PcAfter("save")]
    /\ UNCHANGED << queue, batch, idx, hist, startT, wres, delivered,
                    nDeliv, calls >>
    /\ UNCHANGED apiVars
    /\ UNCHANGED readVars

\* save_assistant_message: a new uuid, a new timestamp, put_item.
SaveAssistantMessage(w, t) ==
    /\ wpc[w] = "save"
    /\ nextId <= MaxIds
    /\ t \in ClockReadings
    /\ now' = t
    /\ LET item == AssistantItem(Record(w), nextId, t, llm[w])
       IN  /\ store' = PutItem(store, item)
           /\ written' = written \cup {item}
    /\ nextId' = nextId + 1
    /\ steps' = [steps EXCEPT ![w] = Append(@, "reply-persisted")]
    /\ llm' = [llm EXCEPT ![w] = NoLLM]
    /\ wpc' = [wpc EXCEPT ![w] = PcAfter("save")]
    /\ UNCHANGED << queue, batch, idx, hist, startT, wres, delivered,
                    nDeliv, calls >>
    /\ UNCHANGED apiVars
    /\ UNCHANGED readVars

\* put_item raises in save_assistant_message.
SaveFail(w) ==
    /\ wpc[w] = "save"
    /\ Raise(w)

\* The for loop of lambda_handler takes the next record of the batch.
NextRecord(w) ==
    /\ wpc[w] = "saved"
    /\ idx[w] < Len(batch[w])
    /\ idx' = [idx EXCEPT ![w] = @ + 1]
    /\ steps' = [steps EXCEPT ![w] = << >>]
    /\ wpc' = [wpc EXCEPT ![w] = "received"]
    /\ UNCHANGED << store, queue, now, nextId, written, batch, hist, startT,
                    llm, wres, delivered, nDeliv, calls >>
    /\ UNCHANGED apiVars
    /\ UNCHANGED readVars

\* lambda_handler returns statusCode 200: SQS deletes the batch's messages.
Acknowledge(w) ==
    /\ wpc[w] = "saved"
    /\ idx[w] = Len(batch[w])
    /\ queue' = queue \ Range(batch[w])
    /\ steps' = [steps EXCEPT ![w] = Append(@, "acknowledged")]
    /\ wres' = [wres EXCEPT ![w] = "success"]
    /\ wpc' = [wpc EXCEPT ![w] = "idle"]
    /\ batch' = [batch EXCEPT ![w] = << >>]
    /\ idx' = [idx EXCEPT ![w] = 0]
    /\ UNCHANGED << store, now, nextId, written, hist, startT, llm,
                    delivered, nDeliv, calls >>
    /\ UNCHANGED apiVars
    /\ UNCHANGED readVars

\* ------------------------------------------------------- the specification
Init ==
    /\ store = {}
    /\ queue = {}
    /\ now = 0
    /\ nextId = 1
    /\ rpc = [r \in Reqs |-> "idle"]
    /\ rbody = [r \in Reqs |-> NoBody]
    /\ ritem = [r \in Reqs |-> NoItem]
    /\ resp = [r \in Reqs |-> NoResp]
    /\ wpc = [w \in Workers |-> "idle"]
    /\ batch = [w \in Workers |-> << >>]
    /\ idx = [w \in Workers |-> 0]
    /\ hist = [w \in Workers |-> << >>]
    /\ startT = [w \in Workers |-> 0]
    /\ llm = [w \in Workers |-> NoLLM]
    /\ steps = [w \in Workers |-> << >>]
    /\ wres = [w \in Workers |-> "none"]
    /\ written = {}
    /\ delivered = {}
    /\ nDeliv = 0
    /\ calls = NoCalls
    /\ gout = NoOut

Next ==
    \/ \E r \in Reqs, body \in Bodies : PostChatInvalid(r, body)
    \/ \E r \in Reqs, body \in Bodies, t \in 0..MaxClock :
            SendMessagePut(r, body, t)
    \/ \E r \in Reqs, body \in Bodies : SendMessagePutFail(r, body)
    \/ \E r \in Reqs : SendMessageEnqueue(r)
    \/ \E r \in Reqs : SendMessageEnqueueFail(r)
    \/ \E w \in Workers : Deliver(w)
    \/ \E w \in Workers : ParseFail(w)
    \/ \E w \in Workers : LoadHistory(w)
    \/ \E w \in Workers : LoadHistoryFail(w)
    \/ \E w \in Workers, t \in 0..MaxClock : InvokeCall(w, t)
    \/ \E w \in Workers, c \in LLMContents, t \in 0..MaxClock :
            InvokeReturn(w, c, t)
    \/ \E w \in Workers : InvokeFail(w)
    \/ \E w \in Workers, t \in 0..MaxClock : SaveAssistantMessage(w, t)
    \/ \E w \in Workers : SaveFail(w)
    \/ \E w \in Workers : NextRecord(w)
    \/ \E w \in Workers : Acknowledge(w)

Spec == Init /\ [][Next]_vars

\* ------------------------------------------ the pipeline under fair delivery
\* One session, one worker invocation at a time, every job delivered on its
\* own as often as it takes.  Submits succeed; the store and the backend may
\* fail, but a call that is tried again and again and can succeed does
\* succeed at last.
LiveBody ==
    [user_id |-> <<"u1">>, session_id |-> <<"s1">>, content |-> <<"Hello">>]
LiveJobs == { SqsMessage(LiveBody, id) : id \in 1..MaxIds }
LiveWorker == "w1"

\* A running invocation of lambda_handler takes its next step: the
\* statement returns or raises.
WorkerStep(w) ==
    \/ LoadHistory(w)
    \/ LoadHistoryFail(w)
    \/ \E t \in 0..MaxClock : InvokeCall(w, t)
    \/ \E c \in LLMContents, t \in 0..MaxClock : InvokeReturn(w, c, t)
    \/ InvokeFail(w)
    \/ \E t \in 0..MaxClock : SaveAssistantMessage(w, t)
    \/ SaveFail(w)
    \/ Acknowledge(w)

NextLive ==
    \/ \E r \in Reqs, t \in 0..MaxClock : SendMessagePut(r, LiveBody, t)
    \/ \E r \in Reqs : SendMessageEnqueue(r)
    \/ \E job \in LiveJobs : Redeliver(LiveWorker, job)
    \/ WorkerStep(LiveWorker)

\* Every started call ends; a job left in the queue is delivered again and
\* again; a call of the store or the backend that is made again and again
\* and can succeed does succeed at last.
Fairness ==
    /\ \A r \in Reqs : WF_vars(SendMessageEnqueue(r))
    /\ WF_vars(WorkerStep(LiveWorker))
    /\ \A job \in LiveJobs : SF_vars(Redeliver(LiveWorker, job))
    /\ SF_vars(LoadHistory(LiveWorker))
    /\ SF_vars(\E c \in LLMContents, t \in 0..MaxClock :
                   InvokeReturn(LiveWorker, c, t))
    /\ SF_vars(\E t \in 0..MaxClock : SaveAssistantMessage(LiveWorker, t))

SpecLive == Init /\ [][NextLive]_vars /\ Fairness

\* ---------------------------------------------------------- the read routes
\* GetMessagesQueryParams: limit: int = Field(default=50, ge=1, le=100)
DefaultLimit == 50
MinLimit == 1
MaxLimit == 100

\* The limits a caller of GET /messages sends.
Limits == {0 - 1, 0, 1, 2, MaxLimit, MaxLimit + 1}

\* Users and sessions whose messages the table holds when it is read.
ReadUsers == { <<"u1">>, <<"u1", "#", "x">> }
ReadSessions == { <<"s1">>, <<"s2">> }
ReadPartitions ==
    { <<u, ss>> \in ReadUsers \X ReadSessions :
          u = <<"u1">> \/ ss = <<"s1">> }

\* Query strings of GET /messages: the route fills in limit, the caller
\* may leave session_id out.
QueryParams ==
    { [user_id |-> p[1], session_id |-> p[2], limit |-> l] :
          p \in ReadPartitions, l \in Limits }
    \cup { [user_id |-> <<"u1">>, limit |-> DefaultLimit] }

\* Variant of GetMessagesQueryParamsValid: the limit has no bounds.
GetMessagesQueryParamsUnbounded(params) ==
    {"user_id", "session_id", "limit"} \subseteq DOMAIN params

\* GetMessagesQueryParams.model_validate
GetMessagesQueryParamsValid(params) ==
    /\ {"user_id", "session_id", "limit"} \subseteq DOMAIN params
    /\ params.limit >= MinLimit
    /\ params.limit <= MaxLimit

\* str.startswith / begins_with(PK, :user_prefix)
BeginsWith(s, prefix) ==
    /\ Len(prefix) <= Len(s)
    /\ SubSeq(s, 1, Len(prefix)) = prefix

\* str.find(sep, i): the first index from i on where sep occurs, 0 if none.
RECURSIVE Find(_, _, _)
Find(s, sep, i) ==
    IF i + Len(sep) - 1 > Len(s) THEN 0
    ELSE IF SubSeq(s, i, i + Len(sep) - 1) = sep THEN i
    ELSE Find(s, sep, i + 1)

\* str.split(sep): the parts between the occurrences of sep, left to right.
RECURSIVE Split(_, _)
Split(s, sep) ==
    LET i == Find(s, sep, 1)
    IN  IF i = 0 THEN << s >>
        ELSE << SubSeq(s, 1, i - 1) >>
                 \o Split(SubSeq(s, i + Len(sep), Len(s)), sep)

SessionSeparator == <<"#", "SESSION", "#">>

\* f"USER#{user_id}#"
UserPrefix(user_id) == <<"USER", "#">> \o user_id \o <<"#">>

\* get_user_sessions: the active items whose PK begins with the user's
\* prefix; of each, the part after the first "#SESSION#"; a PK without the
\* separator raises IndexError, which is logged and skipped.
GetUserSessions(table, user_id) ==
    LET items == { m \in table :
                      /\ m.session_status = "active"
                      /\ BeginsWith(m.PK, UserPrefix(user_id)) }
    IN  { Split(m.PK, SessionSeparator)[2] :
              m \in { i \in items :
                         Len(Split(i.PK, SessionSeparator)) >= 2 } }

\* MessageInDB.model_validate of API and Message.model_validate of worker
\* accept the same contents.
MessageInDBValid(item) == MessageValid(item)

\* What a route returns on success.
OkResponse(fields) == [statusCode |-> 200, body |-> fields]

\* get_conversation_messages: the query parameters do not validate.
GetMessagesInvalid(params) ==
    /\ ~GetMessagesQueryParamsValid(params)
    /\ gout' = [route |-> "messages", params |-> params, queried |-> FALSE,
                response |-> ErrorResponse(TRUE)]
    /\ UNCHANGED << store, queue, now, nextId, written >>
    /\ UNCHANGED apiVars
    /\ UNCHANGED workerVars

\* get_conversation_messages: query_messages returns and the route
\* answers 200 with the messages.
GetMessages(params) ==
    /\ GetMessagesQueryParamsValid(params)
    /\ LET messages == QueryRecent(store, params.user_id, params.session_id,
                                   params.limit)
       IN  /\ \A i \in 1..Len(messages) : MessageInDBValid(messages[i])
           /\ gout' = [route |-> "messages", params |-> params,
                       queried |-> TRUE,
                       response |-> OkResponse([messages |-> messages,
                                                count |-> Len(messages)])]
    /\ UNCHANGED << store, queue, now, nextId, written >>
    /\ UNCHANGED apiVars
    /\ UNCHANGED workerVars

\* get_conversation_messages: an item of the page does not validate as
\* MessageInDB; the ValidationError is answered with 500.
GetMessagesLoadFail(params) ==
    /\ GetMessagesQueryParamsValid(params)
    /\ LET messages == QueryRecent(store, params.user_id, params.session_id,
                                   params.limit)
       IN  \E i \in 1..Len(messages) : ~MessageInDBValid(messages[i])
    /\ gout' = [route |-> "messages", params |-> params, queried |-> TRUE,
                response |-> ErrorResponse(TRUE)]
    /\ UNCHANGED << store, queue, now, nextId, written >>
    /\ UNCHANGED apiVars
    /\ UNCHANGED workerVars

\* get_conversation_messages: Table.query raises a ClientError.
GetMessagesQueryFail(params) ==
    /\ GetMessagesQueryParamsValid(params)
    /\ gout' = [route |-> "messages", params |-> params, queried |-> TRUE,
                response |-> ErrorResponse(FALSE)]
    /\ UNCHANGED << store, queue, now, nextId, written >>
    /\ UNCHANGED apiVars
    /\ UNCHANGED workerVars

\* get_sessions: get_user_sessions returns and the route answers 200.
GetSessions(user_id) ==
    /\ LET sessions == GetUserSessions(store, user_id)
       IN  gout' = [route |-> "sessions", user_id |-> user_id,
                    response |-> OkResponse([user_id |-> user_id,
                                             sessions |-> sessions,
                                             count |-> Cardinality(sessions)])]
    /\ UNCHANGED << store, queue, now, nextId, written >>
    /\ UNCHANGED apiVars
    /\ UNCHANGED workerVars

\* get_sessions: Table.query raises; the route answers 500 with str(e).
GetSessionsFail(user_id) ==
    /\ gout' = [route |-> "sessions", user_id |-> user_id,
                response |-> ErrorResponse(TRUE)]
    /\ UNCHANGED << store, queue, now, nextId, written >>
    /\ UNCHANGED apiVars
    /\ UNCHANGED workerVars

\* process_record from get_conversation_history to build_bedrock_messages,
\* for a job of the given session.
BuildContext(user_id, session_id) ==
    /\ LET history == QueryRecent(store, user_id, session_id, HistoryLimit)
       IN  /\ \A i \in 1..Len(history) : MessageValid(history[i])
           /\ gout' = [route |-> "build", history |-> history,
                       turns |-> BuildBedrockMessages(history)]
    /\ UNCHANGED << store, queue, now, nextId, written >>
    /\ UNCHANGED apiVars
    /\ UNCHANGED workerVars

\* The items the table may hold when a read arrives: user messages and
\* replies as send_message and save_assistant_message write them, and
\* items of other producers (a structured content, an archived session, a
\* partition key of an older layout).
MaxTable == 3
\* uuid4 values: one per partition, time and kind of item.
ItemId(p, t, k) ==
    100 * k + 10 * t + Len(p[1]) + IF p[2] = <<"s1">> THEN 0 ELSE 1
ReadBody(p) == [user_id |-> p[1], session_id |-> p[2], content |-> <<"Hello">>]
WrittenItems ==
    { UserItem(ReadBody(p), ItemId(p, t, 1), t) :
          p \in ReadPartitions, t \in 0..MaxClock }
    \cup { AssistantItem(SqsMessage(ReadBody(p), ItemId(p, t, 1)),
                         ItemId(p, t, 2), t,
                         [content |-> c, input_tokens |-> 1,
                          output_tokens |-> 1, latency_ms |-> 0]) :
               p \in { << <<"u1">>, <<"s1">> >> }, t \in 0..MaxClock,
               c \in LLMContents }
ForeignItems ==
    LET m == UserItem(ReadBody(<< <<"u1">>, <<"s2">> >>), 1, 0)
    IN  { [m EXCEPT !.PK = PartitionKey(<<"u1">>, <<"s1">>),
                    !.content = [kind |-> "dict",
                                 text |-> <<"k", ":", "v">>]],
          [m EXCEPT !.session_status = "archived"],
          [m EXCEPT !.PK = UserPrefix(<<"u1">>) \o <<"PROFILE">>] }
RECURSIVE TablesUpTo(_)
TablesUpTo(n) ==
    IF n = 0 THEN { {} }
    ELSE LET smaller == TablesUpTo(n - 1)
         IN  smaller \cup
             { T \cup {m} : T \in smaller,
                            m \in WrittenItems \cup ForeignItems }
Tables ==
    { T \in TablesUpTo(MaxTable) :
          \A a, b \in T : (a.PK = b.PK /\ a.SK = b.SK) => a = b }

\* A read arrives at a table that earlier requests have filled; no write
\* is in flight.
InitRead ==
    /\ store \in Tables
    /\ written = store
    /\ queue = {}
    /\ now = MaxClock
    /\ nextId = 1
    /\ rpc = [r \in Reqs |-> "idle"]
    /\ rbody = [r \in Reqs |-> NoBody]
    /\ ritem = [r \in Reqs |-> NoItem]
    /\ resp = [r \in Reqs |-> NoResp]
    /\ wpc = [w \in Workers |-> "idle"]
    /\ batch = [w \in Workers |-> << >>]
    /\ idx = [w \in Workers |-> 0]
    /\ hist = [w \in Workers |-> << >>]
    /\ startT = [w \in Workers |-> 0]
    /\ llm = [w \in Workers |-> NoLLM]
    /\ steps = [w \in Workers |-> << >>]
    /\ wres = [w \in Workers |-> "none"]
    /\ delivered = {}
    /\ nDeliv = 0
    /\ calls = NoCalls
    /\ gout = NoOut

NextRead ==
    \/ \E params \in QueryParams :
          \/ GetMessagesInvalid(params)
          \/ GetMessages(params)
          \/ GetMessagesLoadFail(params)
          \/ GetMessagesQueryFail(params)
    \/ \E user_id \in ReadUsers :
          \/ GetSessions(user_id)
          \/ GetSessionsFail(user_id)
    \/ \E p \in ReadPartitions : BuildContext(p[1], p[2])

SpecRead == InitRead /\ [][NextRead]_vars

\* ------------------------------------------------------------- the claims
\* A payload that came from send_message references this stored message.
References(job, m) ==
    /\ m.role = "user"
    /\ m.message_id = job.message_id
    /\ m.PK = PartitionKey(job.user_id, job.session_id)

\* C1: every job that is in the queue or was ever delivered to a worker
\* references a user message that a put_item has already stored in the job's
\* partition; a request that is about to enqueue has stored its message.
C1_JobReferencesStoredMessage ==
    /\ \A job \in queue \cup delivered :
          \E m \in written : References(job, m)
    /\ \A r \in Reqs : rpc[r] = "enqueue" => ritem[r] \in written

\* C1 witness: a job of a stored user message is delivered to a worker while
\* it is still in the queue.
C1_Witness ==
    \E job \in queue \cap delivered :
        \E m \in store : References(job, m)

\* A body of POST /chat with a field missing or empty.
BadBody(body) ==
    \/ ~SendMessageRequestValid(body)
    \/ body.user_id = << >>
    \/ body.session_id = << >>
    \/ body.content = << >>

\* C2: a request whose user_id, session_id or content is missing or empty is
\* answered with a 4xx status, stores no message and enqueues no job.
C2_BadBodyRejected ==
    \A r \in Reqs :
        (rpc[r] # "idle" /\ BadBody(rbody[r])) =>
            /\ rpc[r] = "done"
            /\ resp[r].statusCode \in 400..499
            /\ ritem[r] = NoItem

\* A request that stored its message and then failed to enqueue the job.
EnqueueFailed(r) ==
    /\ rpc[r] = "done"
    /\ ritem[r] # NoItem
    /\ resp[r].statusCode # 202

\* C3: when the enqueue fails after the message was stored, the response is
\* a 5xx, the failing step leaves the table as it is (no delete, no
\* rollback), and in every later state no job for that message is in the
\* queue or was delivered and no assistant message answers it.
C3_EnqueueFailureLeavesMessage ==
    /\ [][\A r \in Reqs :
            (rpc[r] = "enqueue" /\ rpc'[r] = "done"
                /\ resp'[r].statusCode # 202) =>
                /\ resp'[r].statusCode \in 500..599
                /\ store' = store
                /\ queue' = queue]_vars
    /\ [](\A r \in Reqs : EnqueueFailed(r) =>
            /\ resp[r].statusCode \in 500..599
            /\ \A job \in queue \cup delivered :
                  job.message_id # ritem[r].message_id
            /\ Replies(written, ritem[r].message_id) = {})

\* C3 witness: a request has failed at the enqueue and its user message is
\* in the table.
C3_Witness ==
    \E r \in Reqs : EnqueueFailed(r) /\ ritem[r] \in store

\* The invocation of worker w ends in this step / ends without having
\* completed every record of its batch.
WorkerEnds(w) == wpc[w] # "idle" /\ wpc'[w] = "idle"
WorkerFails(w) ==
    /\ WorkerEnds(w)
    /\ ~(wpc[w] = "saved" /\ idx[w] = Len(batch[w]))

\* C4: a failure at any step before the acknowledgement ends the invocation
\* with the exception raised: nothing of the batch is deleted from the queue,
\* the failing step stores nothing, no reply was stored for the record that
\* failed, and every delivery starts at the first step of the first record
\* with no state of an earlier attempt.
C4_FailurePropagates ==
    [][\A w \in Workers :
        /\ WorkerFails(w) =>
              /\ wres'[w] = "raised"
              /\ queue' = queue
              /\ store' = store
              /\ written' = written
              /\ \A i \in 1..Len(steps[w]) : steps[w][i] # "reply-persisted"
        /\ (wpc[w] = "idle" /\ wpc'[w] # "idle") =>
              /\ wpc'[w] = "received"
              /\ idx'[w] = 1
              /\ steps'[w] = << >>
              /\ hist'[w] = << >>
              /\ llm'[w] = NoLLM]_vars

\* C4 witness: a worker raised after it had answered a job of its batch;
\* the job is still in the queue and a second delivery of it starts again at
\* the first step.
C4_Witness ==
    \E w, o \in Workers :
        /\ wres[w] = "raised" /\ wpc[w] = "idle"
        /\ wpc[o] = "received" /\ nDeliv = 2
        /\ Record(o) \in queue
        /\ Replies(store, Record(o).message_id) # {}

StepOrder ==
    << "received", "history-loaded", "context-built", "generation-invoked",
       "reply-persisted", "acknowledged" >>

IsPrefix(s, t) ==
    /\ Len(s) <= Len(t)
    /\ \A i \in 1..Len(s) : s[i] = t[i]

\* C5: the steps of one record happen in the fixed order: the backend is
\* called only with the history loaded and the context built, the assistant
\* message is stored only after the backend has returned, and the handler
\* returns normally only after the assistant message was stored.
C5_StepsInOrder ==
    /\ [](\A w \in Workers :
            /\ IsPrefix(steps[w], StepOrder)
            /\ wpc[w] = "invoking" => steps[w] = SubSeq(StepOrder, 1, 3)
            /\ wpc[w] = "save" => steps[w] = SubSeq(StepOrder, 1, 4))
    /\ [][\A w \in Workers :
            /\ (wpc'[w] # wpc[w] /\ store' # store) =>
                  /\ steps[w] = SubSeq(StepOrder, 1, 4)
                  /\ steps'[w] = SubSeq(StepOrder, 1, 5)
            /\ (WorkerEnds(w) /\ wres'[w] = "success") =>
                  /\ steps[w] = SubSeq(StepOrder, 1, 5)
                  /\ steps'[w] = StepOrder]_vars

\* C5 witness: a delivery has gone through all six steps.
C5_Witness ==
    \E w \in Workers : steps[w] = StepOrder /\ wres[w] = "success"

\* The step in which worker w stores its assistant message.
SaveStep(w) == wpc[w] = "save" /\ wpc'[w] = "saved"

\* C6: the worker has no deduplication guard: a delivery that reaches the
\* write stores a new assistant message for the job's user message also when
\* the table already holds a reply to it, and unless the new item takes the
\* key of such a reply the table then holds two or more replies to it.
C6_NoDeduplication ==
    [][\A w \in Workers :
        (SaveStep(w) /\ Replies(store, Record(w).message_id) # {}) =>
            \E m \in Replies(store', Record(w).message_id) \ store :
                \/ \E o \in Replies(store, Record(w).message_id) :
                        o.SK = m.SK
                \/ Cardinality(Replies(store', Record(w).message_id)) >= 2
      ]_vars

\* C6 witness: the table holds two distinct assistant messages with the same
\* metadata.userMessageId.
C6_Witness ==
    \E m, o \in store :
        /\ m # o
        /\ m.role = "assistant" /\ o.role = "assistant"
        /\ m.metadata.user_message_id = o.metadata.user_message_id

\* C7: the step that completes a record adds exactly one item to the table,
\* an assistant message in the job's partition with the job's message_id as
\* metadata.userMessageId and a latency >= 0, and changes nothing else.
C7_ExactlyOneReplyAppended ==
    [][\A w \in Workers :
        SaveStep(w) =>
            \E m \in store' \ store :
                /\ store' = store \cup {m}
                /\ m.PK = PartitionKey(Record(w).user_id,
                                       Record(w).session_id)
                /\ m.role = "assistant"
                /\ m.metadata.user_message_id = Record(w).message_id
                /\ m.metadata.latency_ms >= 0]_vars

\* C8: every assistant message in the table references, by
\* metadata.userMessageId, a message of the same partition with a strictly
\* smaller sort key.
C8_ReplyFollowsItsUserMessage ==
    \A m \in store :
        m.role = "assistant" =>
            \E u \in store :
                /\ u.PK = m.PK
                /\ u.message_id = m.metadata.user_message_id
                /\ StrLess(u.SK, m.SK)

\* C9: every item that a put_item has stored is still in the table,
\* unchanged.
C9_MessagesImmutable == written \subseteq store


Accepted(r) == rpc[r] = "done" /\ resp[r].statusCode = 202

\* C10: when two requests to the same user and session have both been
\* accepted, their two user messages are both in the partition under
\* different sort keys and a query of the partition returns both.
C10_ConcurrentSubmitsBothStored ==
    \A r, o \in Reqs :
        (r # o /\ Accepted(r) /\ Accepted(o) /\ rbody[r] = rbody[o]) =>
            /\ ritem[r] \in store /\ ritem[o] \in store
            /\ ritem[r].SK # ritem[o].SK
            /\ {ritem[r], ritem[o]} \subseteq
                  Range(QueryRecent(store, rbody[r].user_id,
                                    rbody[r].session_id, DefaultLimit))


\* --------------------------------------------------------------------- C11
\* q is the window of the `limit` most recent messages of a partition:
\* min(limit, n) distinct messages of the partition, none of them older
\* than a message left out, in non-decreasing sort-key order.
RecentWindow(q, table, pk, limit) ==
    LET P == Partition(table, pk)
        n == Cardinality(P)
    IN  /\ Len(q) = IF limit < n THEN limit ELSE n
        /\ \A i \in 1..Len(q) : q[i] \in P
        /\ \A i, j \in 1..Len(q) : i # j => q[i] # q[j]
        /\ \A i \in 1..Len(q) : \A j \in 1..Len(q) :
               i < j => ~StrLess(q[j].SK, q[i].SK)
        /\ \A m \in P : \A i \in 1..Len(q) :
               StrLess(m.SK, q[i].SK) \/ m \in Range(q)

C15_LimitOutOfRangeRejected ==
    gout.route = "messages" =>
        LET l == gout.params.limit
        IN  /\ (l < 1 \/ l > 100) =>
                /\ ~gout.queried
                /\ gout.response.statusCode # 200
                /\ gout.response.error = "str(e)"
                /\ "body" \notin DOMAIN gout.response
            /\ (l >= 1 /\ l <= 100 /\ "session_id" \in DOMAIN gout.params)
                => gout.queried
            /\ gout.response.statusCode = 200
                => /\ l >= 1 /\ l <= 100
                   /\ gout.response.body.count
                        = Len(gout.response.body.messages)
                   /\ (Cardinality(Partition(store,
                           PartitionKey(gout.params.user_id,
                                        gout.params.session_id))) <= l
                        => gout.response.body.count
                             = Cardinality(Partition(store,
                                   PartitionKey(gout.params.user_id,
                                                gout.params.session_id))))

\* A request with limit 0 has been answered against a non-empty partition.
C15_Witness ==
    /\ gout.route = "messages"
    /\ gout.params.limit = 0
    /\ Partition(store, PartitionKey(gout.params.user_id,
                                     gout.params.session_id)) # {}
    /\ gout.response.statusCode = 500

\* --------------------------------------------------------------------- C16
\* The sessions of a user: the s for which the table holds an active
\* message in partition USER#{u}#SESSION#{s}.
ActiveSessions(table, user_id, candidates) ==
    { ss \in candidates :
         \E m \in table : /\ m.session_status = "active"
                          /\ m.PK = PartitionKey(user_id, ss) }

\* C16: what get_user_sessions(u) returns is exactly the set of session
\* identifiers s for which the table holds at least one active message in
\* partition USER#{u}#SESSION#{s}: no session of another user, and an item
\* whose partition key has no session segment is skipped.
C16_SessionsOfTheUser ==
    (gout.route = "sessions" /\ gout.response.statusCode = 200) =>
        gout.response.body.sessions
            = ActiveSessions(store, gout.user_id,
                             ReadSessions \cup gout.response.body.sessions)

\* --------------------------------------------------------------------- C17
\* C17: build_bedrock_messages maps a loaded history to a sequence of turns
\* of the same length and order; turn i has the role of message i, and its
\* text is the content of message i when that is a str, and its JSON
\* serialization otherwise.
C17_ContextKeepsEveryMessage ==
    gout.route = "build" =>
        /\ Len(gout.turns) = Len(gout.history)
        /\ \A i \in 1..Len(gout.history) :
              /\ gout.turns[i].role = gout.history[i].role
              /\ gout.history[i].content.kind = "str"
                    => gout.turns[i].content = gout.history[i].content.text
              /\ gout.history[i].content.kind # "str"
                    => gout.turns[i].content
                         = JsonDumps(gout.history[i].content.text)

\* A history of a text message and a structured one has been mapped.
C17_Witness ==
    /\ gout.route = "build"
    /\ Len(gout.history) >= 2
    /\ \E i \in 1..Len(gout.history) : gout.history[i].content.kind = "dict"
    /\ \E i \in 1..Len(gout.history) : gout.history[i].content.kind = "str"
    /\ \E i \in 1..Len(gout.history) : gout.history[i].role = "assistant"


\* --------------------------------------------------------------------- C12
PutStep(r) == rpc[r] = "idle" /\ rpc'[r] = "enqueue"
AcceptStep(r) ==
    rpc[r] = "enqueue" /\ rpc'[r] = "done" /\ resp'[r].statusCode = 202

\* C12: a valid submit appends exactly one new message, with a message_id
\* no earlier message has, role user, the submitted content and the
\* partition key of the submitted user and session; when the submit
\* succeeds, the message_id of the response is that message's id and the
\* job put on the queue carries the same id.
C12_ResponseNamesTheStoredMessage ==
    [][\A r \in Reqs :
        /\ PutStep(r) =>
              LET m == ritem'[r]
              IN  /\ store' \ store = {m}
                  /\ written' \ written = {m}
                  /\ \A o \in written : o.message_id # m.message_id
                  /\ m.role = "user"
                  /\ m.content = Str(rbody'[r].content)
                  /\ m.PK = PartitionKey(rbody'[r].user_id,
                                         rbody'[r].session_id)
        /\ AcceptStep(r) =>
              LET id == resp'[r].message_id
                  job == [user_id |-> rbody[r].user_id,
                          session_id |-> rbody[r].session_id,
                          message_id |-> id]
              IN  /\ id = ritem[r].message_id
                  /\ Cardinality({ m \in written : m.message_id = id }) = 1
                  /\ ritem[r] \in written
                  /\ job \in queue'
                  /\ queue' \ queue \subseteq {job}
                  /\ rbody'[r] = rbody[r]
    ]_vars

\* A submit has been answered 202 and its message and job are in place.
C12_Witness ==
    \E r \in Reqs :
        /\ rpc[r] = "done"
        /\ resp[r].statusCode = 202
        /\ resp[r].message_id = ritem[r].message_id
        /\ ritem[r] \in store
        /\ \E job \in queue : job.message_id = resp[r].message_id

\* --------------------------------------------------------------------- C13
HasJobFields(payload) ==
    /\ "user_id" \in DOMAIN payload
    /\ "session_id" \in DOMAIN payload
    /\ "message_id" \in DOMAIN payload

\* C13: for a payload that lacks user_id, session_id or message_id the
\* handler raises: the invocation ends in error, nothing is deleted from
\* the queue, and no history load, generation call or assistant write is
\* done for that payload.
C13_MalformedPayloadRaises ==
    /\ [](\A w \in Workers :
            wpc[w] \notin {"idle", "received"} => HasJobFields(Record(w)))
    /\ [][\A w \in Workers :
            (/\ wpc[w] = "received"
             /\ ~HasJobFields(Record(w))
             /\ wpc'[w] # "received")
            => /\ wpc'[w] = "idle"
               /\ wres'[w] = "raised"
               /\ queue' = queue
               /\ store' = store
               /\ written' = written
               /\ "history-loaded" \notin Range(steps'[w])
       ]_vars

\* The only batch delivered so far held no job, and its invocation raised.
C13_Witness ==
    /\ nDeliv = 1
    /\ delivered = {}
    /\ \E w \in Workers : wres[w] = "raised" /\ wpc[w] = "idle"
    /\ store = {}

\* --------------------------------------------------------------------- C14
\* C14: POST /chat answers 202 only when the message was stored and the job
\* enqueued, 400 when a required body field is missing, and 500 when the
\* store write or the enqueue failed.
C14_StatusCodes ==
    \A r \in Reqs :
        rpc[r] = "done" =>
            /\ resp[r].statusCode \in {202, 400, 500}
            /\ resp[r].statusCode = 202 => ritem[r] \in written
            /\ resp[r].statusCode = 400
                   <=> ~({"user_id", "session_id", "content"}
                            \subseteq DOMAIN rbody[r])

\* --------------------------------------------------------------------- C19
\* C19: once a delivery of a job has been acknowledged (the job is gone
\* from the queue), the table holds at least one reply whose
\* metadata.user_message_id is the job's message_id, in every later state.
C19_AcknowledgedJobHasReply ==
    \A job \in delivered \ queue :
        Replies(store, job.message_id) # {}


\* --------------------------------------------------------------------- C18
\* C18: the pipeline does not retry.  Within one delivery the worker goes
\* through the backend call and through the write of the reply at most
\* once per record: it never steps back to an earlier statement of the
\* same record, a backend call is counted once for the record in process,
\* and a write step stores one item.  So the number of backend calls made
\* for a job never exceeds the number of times the job was delivered.
C18_NoInternalRetry ==
    /\ [](\A id \in 1..MaxIds : calls[id].invoked <= calls[id].handed)
    /\ [][\A w \in Workers :
            /\ wpc[w] = "invoking" => wpc'[w] \in {"invoking", "save", "idle"}
            /\ wpc[w] = "save" => wpc'[w] \in {"save", "saved", "idle"}
            /\ wpc[w] = "saved" =>
                  /\ wpc'[w] \in {"saved", "received", "idle"}
                  /\ wpc'[w] = "received" => idx'[w] = idx[w] + 1
            /\ (wpc[w] = "invoke" /\ wpc'[w] = "invoking") =>
                  calls' = [calls EXCEPT
                               ![Record(w).message_id].invoked = @ + 1]
            /\ (wpc[w] = "save" /\ wpc'[w] # "save") =>
                  Cardinality(written' \ written)
                      = IF wpc'[w] = "saved" THEN 1 ELSE 0
       ]_vars

\* A job has been delivered twice and the backend called twice for it.
C18_Witness ==
    \E id \in 1..MaxIds : calls[id].handed = 2 /\ calls[id].invoked = 2


\* --------------------------------------------------------------------- C20
\* A worker stands before the write of the reply and the model has no
\* identifier left for it.
OutOfIds == \E w \in Workers : wpc[w] = "save" /\ nextId > MaxIds

\* C20: under fair redelivery, and with store and backend calls that succeed
\* at last, every job enqueued by a successful submit is eventually
\* acknowledged (gone from the queue) with a reply to it written, unless the
\* run uses up the identifiers of the model.
C20_EveryJobEventuallyAnswered ==
    \A job \in LiveJobs :
        (job \in queue) ~>
            \/ /\ job \notin queue
               /\ \E m \in written :
                     /\ m.role = "assistant"
                     /\ m.metadata.user_message_id = job.message_id
            \/ OutOfIds


\* --------------------------------------------------------------------- C21
\* C21: lambda_handler goes through the records of a batch one after the
\* other in batch order, moving on only after the current record was
\* answered, and stops at the first record that fails: the failing step
\* removes nothing from the table (the replies of the earlier records
\* stay), calls nothing for a later record, ends the invocation in error
\* and deletes no record of the batch from the queue, answered or not.
C21_BatchStopsAtFirstFailure ==
    [][\A w \in Workers :
        /\ idx'[w] # idx[w] =>
              \/ wpc[w] = "idle" /\ wpc'[w] = "received" /\ idx'[w] = 1
              \/ /\ wpc[w] = "saved" /\ wpc'[w] = "received"
                 /\ idx'[w] = idx[w] + 1
                 /\ idx'[w] <= Len(batch[w])
              \/ wpc'[w] = "idle" /\ idx'[w] = 0
        /\ (wpc[w] # "idle" /\ wpc'[w] # "idle") => batch'[w] = batch[w]
        /\ (wpc[w] # "idle" /\ wpc[w] # "saved" /\ wpc'[w] # wpc[w]) =>
              idx'[w] = idx[w] \/ wpc'[w] = "idle"
        /\ (WorkerFails(w) /\ Len(batch[w]) > 1) =>
              /\ wres'[w] = "raised"
              /\ store' = store
              /\ queue' = queue
              /\ calls' = calls
              /\ nextId' = nextId
    ]_vars

\* The one batch delivered so far had its first job answered and then
\* failed at a later record: the reply is in the table, the job in the queue.
C21_Witness ==
    /\ nDeliv = 1
    /\ \A w \in Workers : wpc[w] = "idle"
    /\ \E w \in Workers : wres[w] = "raised"
    /\ \E job \in queue \cap delivered :
           Replies(store, job.message_id) # {}


\* --------------------------------------------------------------------- C22
\* C22: whenever a worker is about to call the backend for a delivered job,
\* the turns it passes (build_bedrock_messages of the loaded history)
\* number at least 1 and at most 20 and include the user message whose
\* message_id is the job's message_id.
C22_ContextHoldsTheUserMessage ==
    \A w \in Workers :
        (wpc[w] = "invoke" /\ Record(w) \in delivered) =>
            LET turns == BuildBedrockMessages(hist[w])
            IN  /\ Len(turns) >= 1
                /\ Len(turns) <= 20
                /\ \E i \in 1..Len(hist[w]) :
                      /\ hist[w][i].message_id = Record(w).message_id
                      /\ hist[w][i].role = "user"
                      /\ turns[i].role = "user"
                      /\ turns[i].content = hist[w][i].content.text

====
